---- MODULE Spec2Model ----
(***************************************************************************)
(* Model of assignments/mp1/src/mnist.py: class NeuralNetwork, a           *)
(* feedforward network with one hidden layer trained by minibatch          *)
(* gradient descent.                                                       *)
(*                                                                         *)
(* Number representation.  numpy float64 tensors are modelled as           *)
(* fixed-point numbers: an integer n stands for n / Scale, a product is    *)
(* rescaled and rounded down.  The learning rate and the decay rate are    *)
(* kept as exact fractions.  The scalar returned by accuracy() is          *)
(* modelled as an IEEE-754 binary64 value, bit for bit, because its        *)
(* rounding is observable (see Fl, FlDiv, FlSub).                          *)
(***************************************************************************)
EXTENDS Integers, Sequences, FiniteSets, TLC

----------------------------------------------------------------------------
(* Bounds of the model *)

\* resolution of the fixed-point grid: the integer n stands for n / Scale
Scale == 1000
\* largest number of samples in a data set or batch
MaxN == 3
\* largest epochs argument
MaxEpochs == 3
\* largest minibatch_size argument
MaxBatches == 3
\* number of random initialisations of the weights
Seeds == 2
\* number of terms of the series used for np.exp and np.log
Terms == 8

----------------------------------------------------------------------------
(* Sequences and matrices; a matrix is a sequence of rows.  Vec and Mat   *)
(* turn a function over 1..n into the tuple of its values, so that an    *)
(* array is computed once, when it is created.                           *)

Vec(s) == s \o <<>>

Mat(m) == [i \in 1..Len(m) |-> m[i] \o <<>>] \o <<>>

RECURSIVE SumSeq(_)
SumSeq(s) == IF s = <<>> THEN 0 ELSE s[1] + SumSeq(Tail(s))

RECURSIVE MaxSeq(_)
MaxSeq(s) == IF Len(s) = 1 THEN s[1]
             ELSE LET m == MaxSeq(Tail(s)) IN IF s[1] >= m THEN s[1] ELSE m

\* every entry of a matrix, row after row
RECURSIVE Flatten(_)
Flatten(m) == IF m = <<>> THEN <<>> ELSE m[1] \o Flatten(Tail(m))

NRows(m) == Len(m)
NCols(m) == IF m = <<>> THEN 0 ELSE Len(m[1])

\* column j of a matrix
Col(m, j) == Vec([i \in 1..Len(m) |-> m[i][j]])

\* m.T for a matrix with r rows and c columns
Transpose(m, r, c) == Mat([j \in 1..c |-> [i \in 1..r |-> m[i][j]]])

\* m[:, 1:]
DropFirstCol(m) == Mat([i \in 1..Len(m) |-> Tail(m[i])])

----------------------------------------------------------------------------
(* Fixed-point arithmetic *)

One == Scale

Mul(a, b) == (a * b) \div Scale

Div(a, b) == (a * Scale) \div b

\* a.dot(b) for a of shape (r, n) and b of shape (n, c)
Dot(a, b, r, n, c) ==
    Mat([i \in 1..r |-> [j \in 1..c |-> SumSeq(Vec([k \in 1..n |-> Mul(a[i][k], b[k][j])]))]])

\* e as a fixed-point number
EFix == (27183 * Scale) \div 10000

\* sum_{k >= from} (-f)^k / k!  given term = (-f)^(from-1) / (from-1)!
RECURSIVE ExpSeries(_, _, _)
ExpSeries(f, term, k) ==
    IF k > Terms \/ term = 0 THEN 0
    ELSE LET t == (0 - Mul(term, f)) \div k IN t + ExpSeries(f, t, k + 1)

RECURSIVE DivE(_, _)
DivE(v, n) == IF n = 0 \/ v = 0 THEN v ELSE DivE(Div(v, EFix), n - 1)

\* np.exp(x) for x <= 0
ExpNeg(x) ==
    LET n == (0 - x) \div Scale
        f == (0 - x) % Scale
    IN  DivE(One + ExpSeries(f, One, 1), n)

\* np.exp(x)
Exp(x) == IF x <= 0 THEN ExpNeg(x)
          ELSE LET d == ExpNeg(0 - x) IN IF d = 0 THEN Scale * Scale ELSE Div(One, d)

\* -sum_{k >= from} u^k / k   given pw = u^(from-1)
RECURSIVE LogSeries(_, _, _)
LogSeries(u, pw, k) ==
    IF k > 2 * Terms \/ pw = 0 THEN 0
    ELSE LET p == Mul(pw, u) IN (0 - (p \div k)) + LogSeries(u, p, k + 1)

LN2 == (6931 * Scale) \div 10000

\* np.log(p) for 0 <= p <= 1: double p into (1/2, 1], then log(1 - u);
\* np.log(0) is -inf, here the most negative value a product can carry
RECURSIVE Log(_)
Log(p) == IF p <= 0 THEN 0 - Scale * Scale
          ELSE IF 2 * p <= One THEN Log(2 * p) - LN2
          ELSE LogSeries(One - p, One, 1)

----------------------------------------------------------------------------
(* Exact fractions [n, d] with d > 0, in lowest terms *)

RECURSIVE Gcd(_, _)
Gcd(a, b) == IF b = 0 THEN a ELSE Gcd(b, a % b)

Abs(a) == IF a < 0 THEN 0 - a ELSE a

Frac(n, d) == LET g == Gcd(Abs(n), Abs(d))
                  s == IF d < 0 THEN 0 - 1 ELSE 1
              IN  [n |-> s * (n \div g), d |-> s * (d \div g)]

FracMul(p, q) == Frac(p.n * q.n, p.d * q.d)

FracDiv(p, q) == Frac(p.n * q.d, p.d * q.n)

FracLeq(p, q) == p.n * q.d <= q.n * p.d

\* DecayFactor with the epochs counted from 1
DecayFactorFromOne(decay, i) == Frac(decay.d + decay.n * (i + 1), decay.d)

\* 1 + decay_rate * i
DecayFactor(decay, i) == Frac(decay.d + decay.n * i, decay.d)

\* learning_rate * grad, a fraction times a fixed-point matrix
Scaled(lr, m) ==
    Mat([r \in 1..Len(m) |-> [c \in 1..Len(m[r]) |-> (lr.n * m[r][c]) \div lr.d]])

MatAdd(a, b) == Mat([r \in 1..Len(a) |-> [c \in 1..Len(a[r]) |-> a[r][c] + b[r][c]]])

MatSub(a, b) == Mat([r \in 1..Len(a) |-> [c \in 1..Len(a[r]) |-> a[r][c] - b[r][c]]])

Zeros(r, c) == Mat([i \in 1..r |-> [j \in 1..c |-> 0]])

----------------------------------------------------------------------------
(* IEEE-754 binary64 values in [0, 2^IntBits), as bit strings.             *)
(* Bit i of a string has weight 2^(IntBits - i).  A binary64 value has at  *)
(* most Precision significant bits; Fl rounds to nearest, ties to even.    *)

IntBits == 7
FracBits == 60
Precision == 52 + 1
Width == IntBits + FracBits

\* the w-bit binary form of n
NatBits(n, w) == Vec([k \in 1..w |-> (n \div (2 ^ (w - k))) % 2])

\* 2^k mod b, by chunks of 15 bits
RECURSIVE PowChunk(_, _)
PowChunk(q, b) == IF q = 0 THEN 1 % b ELSE (PowChunk(q - 1, b) * ((2 ^ 15) % b)) % b

Pow2Mod(k, b) == (PowChunk(k \div 15, b) * ((2 ^ (k % 15)) % b)) % b

\* what is left of r / b after k bits: (r * 2^k) mod b, for 0 <= r < b
FracRem(r, b, k) == (r * Pow2Mod(k, b)) % b

\* the first k bits after the binary point of r / b, for 0 <= r < b
FracExp(r, b, k) == Vec([j \in 1..k |-> (2 * FracRem(r, b, j - 1)) \div b])

\* a / b cut after FracBits bits; sticky tells whether anything was cut
QuotBits(a, b) ==
    [bits   |-> NatBits(a \div b, IntBits) \o FracExp(a % b, b, FracBits),
     sticky |-> FracRem(a % b, b, FracBits) # 0]

\* index of the leading 1, Len(bits) + 1 for zero
Lead(bits) ==
    IF \A k \in 1..Len(bits) : bits[k] = 0 THEN Len(bits) + 1
    ELSE CHOOSE k \in 1..Len(bits) : bits[k] = 1 /\ \A j \in 1..(k - 1) : bits[j] = 0

\* bits + 2^(IntBits - pos): the carry stops at the last 0 at or before pos
AddUlp(bits, pos) ==
    LET stop == CHOOSE k \in 1..pos : bits[k] = 0 /\ \A j \in (k + 1)..pos : bits[j] = 1
    IN  Vec([k \in 1..Len(bits) |-> IF k = stop THEN 1
                                    ELSE IF k > stop /\ k <= pos THEN 0 ELSE bits[k]])

\* round to Precision significant bits, to nearest, ties to even
Fl(bits, sticky) ==
    LET last == Lead(bits) + Precision - 1 IN
    IF last >= Len(bits) THEN bits
    ELSE LET guard == bits[last + 1]
             rest  == sticky \/ \E k \in (last + 2)..Len(bits) : bits[k] = 1
             trunc == Vec([k \in 1..Len(bits) |-> IF k <= last THEN bits[k] ELSE 0])
         IN  IF guard = 1 /\ (rest \/ bits[last] = 1) THEN AddUlp(trunc, last)
             ELSE trunc

\* the suffix of a after position i is smaller than that of b: the
\* subtraction a - b borrows from position i
Borrows(a, b, i) ==
    \E k \in (i + 1)..Len(a) :
        a[k] < b[k] /\ \A j \in (i + 1)..(k - 1) : a[j] = b[j]

\* a - b for a >= b
SubBits(a, b) ==
    Vec([i \in 1..Len(a) |-> (a[i] - b[i] - (IF Borrows(a, b, i) THEN 1 ELSE 0)) % 2])

\* a <= b as numbers
BitsLeq(a, b) ==
    \/ a = b
    \/ \E k \in 1..Len(a) : a[k] < b[k] /\ \A j \in 1..(k - 1) : a[j] = b[j]

\* the binary64 value of the integer n
FlNat(n) == NatBits(n, IntBits) \o Vec([k \in 1..FracBits |-> 0])

\* the binary64 quotient a / b of two integers
FlDiv(a, b) == LET q == QuotBits(a, b) IN Fl(q.bits, q.sticky)

\* the binary64 difference a - b, for a >= b
FlSub(a, b) == Fl(SubBits(a, b), FALSE)

----------------------------------------------------------------------------
(* The network: class NeuralNetwork *)

\* constructor arguments that fix the shapes
n_features == 1
n_hidden == 1
n_output == 2

\* the activation attribute of an instance whose constructor did not set it
Unset == "<unset>"

supported_activations == {"relu", "tanh", "sigmoid"}

\* __init__: the activation attribute after construction
InitActivation(activation) ==
    IF activation \notin supported_activations THEN Unset ELSE activation

\* np.random.uniform(-1.0, 1.0): the k-th draw of the generator seeded with seed
Uniform(seed, k) == (((seed * 5 + k * 3) % 9) - 4) * (Scale \div 4)

\* initialize_weights
InitW1(seed) ==
    Mat([r \in 1..n_hidden |-> [c \in 1..(n_features + 1) |->
            Uniform(seed, (r - 1) * (n_features + 1) + c) \div (n_features + 1)]])

InitW2(seed) ==
    Mat([r \in 1..n_output |-> [c \in 1..(n_hidden + 1) |->
            Uniform(seed + 1, (r - 1) * (n_hidden + 1) + c) \div (n_hidden + 1)]])

\* LabelRow with the label taken as a row number counted from 1
LabelRowFromOne(l, num_labels) == IF l < 0 THEN num_labels + l ELSE l

\* the row onehot[y[i], ...] written for label l, rows counted from 1;
\* a negative index counts from the end
LabelRow(l, num_labels) == IF l < 0 THEN num_labels + l + 1 ELSE l + 1

\* encode_labels raises IndexError
EncodeRaises(y, num_labels) ==
    \E i \in 1..Len(y) : y[i] >= num_labels \/ y[i] < 0 - num_labels

\* encode_labels
EncodeLabels(y, num_labels) ==
    Mat([r \in 1..num_labels |-> [i \in 1..Len(y) |->
            IF LabelRow(y[i], num_labels) = r THEN One ELSE 0]])

\* softmax: the arguments v + logC handed to np.exp
SoftmaxArgs(v) ==
    LET logC == 0 - MaxSeq(Flatten(v))
    IN  Mat([i \in 1..Len(v) |-> [j \in 1..Len(v[i]) |-> v[i][j] + logC]])

\* softmax raises ValueError: np.max of an array without elements
SoftmaxRaises(v) == Flatten(v) = <<>>

\* softmax
Softmax(v) ==
    LET args == SoftmaxArgs(v)
        e    == Mat([i \in 1..Len(v) |-> [j \in 1..Len(v[i]) |-> Exp(args[i][j])]])
        sum  == Vec([j \in 1..NCols(v) |-> SumSeq(Col(e, j))])
    IN  Mat([i \in 1..Len(v) |-> [j \in 1..Len(v[i]) |-> Div(e[i][j], sum[j])]])

\* tanh, deriv = False
Tanh(z) ==
    LET e == Exp(0 - 2 * Abs(z))
        t == Div(One - e, One + e)
    IN  IF z < 0 THEN 0 - t ELSE t

\* sigmoid of the activations module
Sigmoid(z) ==
    IF z >= 0 THEN Div(One, One + Exp(0 - z)) ELSE Div(Exp(z), One + Exp(z))

\* relu, deriv = False: clamps the array it is given, in place, and returns it
Relu(z) ==
    Mat([i \in 1..Len(z) |-> [j \in 1..Len(z[i]) |-> IF z[i][j] < 0 THEN 0 ELSE z[i][j]]])

\* relu, deriv = True
ReluDeriv(z) ==
    Mat([i \in 1..Len(z) |-> [j \in 1..Len(z[i]) |-> IF z[i][j] <= 0 THEN 0 ELSE One]])

\* add_bias_unit, column = True
AddBiasColumn(X) == Mat([i \in 1..Len(X) |-> <<One>> \o X[i]])

\* add_bias_unit, column = False, for an array with m columns
AddBiasRow(a, m) == <<Vec([j \in 1..m |-> One])>> \o a

\* forward: z2 = w1.dot(a1.T), the input of the hidden layer
HiddenInput(a1, w1) ==
    Dot(w1, Transpose(a1, Len(a1), Len(w1[1])), Len(w1), Len(w1[1]), Len(a1))

\* forward.  relu clamps z2 in place and a2 is that same array, so the z2
\* that forward returns is the clamped one
Forward(X, w1, w2) ==
    LET m    == Len(X)
        a1   == AddBiasColumn(X)
        z2   == Relu(HiddenInput(a1, w1))
        a2   == AddBiasRow(z2, m)
        z3   == Dot(w2, a2, Len(w2), Len(w1) + 1, m)
    IN  [a1 |-> a1, z2 |-> z2, a2 |-> a2, z3 |-> z3, a3 |-> Softmax(z3)]

\* forward raises: its softmax call does
ForwardRaises(X) == Len(X) = 0

\* get_cost: - np.sum(y_enc * np.log(output))
CrossEntropy(y_enc, output) ==
    0 - SumSeq(Flatten(Mat([i \in 1..Len(output) |-> [j \in 1..Len(output[i]) |->
                                Mul(y_enc[i][j], Log(output[i][j]))]])))

\* np.sum(np.square(w[:, 1:]))
SumSquares(w) ==
    LET nb == DropFirstCol(w)
    IN  SumSeq(Flatten(Mat([i \in 1..Len(nb) |-> [j \in 1..Len(nb[i]) |->
                                    Mul(nb[i][j], nb[i][j])]])))

\* get_cost: l2_term
L2Term(l2, w1, w2) == Mul(l2 \div 2, SumSquares(w1) + SumSquares(w2))

\* GetCost with only the cross-entropy divided by the batch size
GetCostRawL2(y_enc, output, w1, w2, l2) ==
    (CrossEntropy(y_enc, output) \div NCols(y_enc)) + L2Term(l2, w1, w2)

\* get_cost, for y_enc and output of shape (classes, m) with m >= 1
GetCost(y_enc, output, w1, w2, l2) ==
    (CrossEntropy(y_enc, output) + L2Term(l2, w1, w2)) \div NCols(y_enc)

\* AddL2 adding the term to the bias column as well: grad += w * l2
AddL2AllColumns(grad, w, l2) ==
    Mat([i \in 1..Len(grad) |-> [j \in 1..Len(grad[i]) |-> grad[i][j] + Mul(w[i][j], l2)]])

\* grad[:, 1:] += w[:, 1:] * l2
AddL2(grad, w, l2) ==
    Mat([i \in 1..Len(grad) |-> [j \in 1..Len(grad[i]) |->
            IF j = 1 THEN grad[i][j] ELSE grad[i][j] + Mul(w[i][j], l2)]])

\* backprop
Backprop(a1, a2, a3, z2, y_enc, w1, w2, l2) ==
    LET m      == Len(a1)
        h      == Len(w1)
        c      == Len(w2)
        sigma3 == MatSub(a3, y_enc)
        z2b    == AddBiasRow(z2, m)
        d      == ReluDeriv(z2b)
        back   == Dot(Transpose(w2, c, h + 1), sigma3, h + 1, c, m)
        sigma2 == Tail(Mat([i \in 1..(h + 1) |-> [j \in 1..m |-> Mul(back[i][j], d[i][j])]]))
        grad1  == Dot(sigma2, a1, h, m, Len(w1[1]))
        grad2  == Dot(sigma3, Transpose(a2, h + 1, m), c, m, h + 1)
    IN  [grad1 |-> AddL2(grad1, w1, l2), grad2 |-> AddL2(grad2, w2, l2)]

\* np.argmax of a sequence: the first index of the largest entry, from 0
ArgMax(s) == (CHOOSE i \in 1..Len(s) :
                 /\ \A j \in 1..Len(s) : s[j] <= s[i]
                 /\ \A j \in 1..(i - 1) : s[j] < s[i]) - 1

\* predict
Predict(X, w1, w2) ==
    LET a3 == Forward(X, w1, w2).a3
    IN  Vec([j \in 1..Len(X) |-> ArgMax(Col(a3, j))])

\* CountDiffs counting only the predictions above the label
CountDiffsAbove(pred, y) == Cardinality({i \in 1..Len(y) : pred[i] - y[i] > 0})

\* accuracy: the number of i with diffs[i] != 0
CountDiffs(pred, y) == Cardinality({i \in 1..Len(y) : pred[i] - y[i] # 0})

\* accuracy: 100 - count * 100 / y_train.shape[0], in binary64
Accuracy(X, y, w1, w2) ==
    LET count == CountDiffs(Predict(X, w1, w2), y)
    IN  FlSub(FlNat(100), FlDiv(count * 100, Len(y)))

\* ArraySplit with k runs of equal length, the remainder left out
ArraySplitEqual(n, k) ==
    Mat([p \in 1..k |-> [q \in 1..(n \div k) |-> (p - 1) * (n \div k) + q - 1]])

\* np.array_split(range(n), k): k runs of consecutive indices (from 0), the
\* first n % k of them one longer than the others
ArraySplit(n, k) ==
    LET each  == n \div k
        extra == n % k
        start(p) == (p - 1) * each + (IF p - 1 < extra THEN p - 1 ELSE extra)
        size(p)  == each + (IF p <= extra THEN 1 ELSE 0)
    IN  Mat([p \in 1..k |-> [q \in 1..size(p) |-> start(p) + q - 1]])

\* X[idx] and y_enc[:, idx]
Rows(X, idx) == Vec([q \in 1..Len(idx) |-> X[idx[q] + 1]])
Cols(m, idx) == Mat([i \in 1..Len(m) |-> [q \in 1..Len(idx) |-> m[i][idx[q] + 1]]])

----------------------------------------------------------------------------
(* State *)

VARIABLES
    \* the instance
    w1, w2, l2, epochs, learning_rate, decay_rate, minibatch_size, activation,
    \* the running call of fit: where it is and its locals
    pc, X_data, y_data, y_enc, print_progress, i, mini, batch, acts, cost,
    grad1, grad2, prev_grad_w1, prev_grad_w2, costs, grad_1_li, grad_2_li,
    \* what fit printed, the exception that ended a call, the last finished call
    printed, raised, ret,
    \* history: the learning rate fit started with and the one in effect at
    \* each parameter update
    lr_start, lr_li

self_vars == <<w1, w2, l2, epochs, learning_rate, decay_rate, minibatch_size, activation>>
data_vars == <<X_data, y_data, y_enc, print_progress>>
loop_vars == <<i, mini, batch>>
step_vars == <<acts, cost, grad1, grad2>>
prev_vars == <<prev_grad_w1, prev_grad_w2>>
list_vars == <<costs, grad_1_li, grad_2_li>>
hist_vars == <<lr_start, lr_li>>
fit_vars  == <<pc, data_vars, loop_vars, step_vars, prev_vars, list_vars, printed,
               raised, hist_vars>>
vars == <<self_vars, fit_vars, ret>>

None == "none"

----------------------------------------------------------------------------
(* Inputs *)

\* values of the activation argument
ActivationArgs == supported_activations \cup {"softplus"}

\* values of the l2, learning_rate and decay_rate arguments
L2Args == {0, Scale \div 2}
LearningRateArgs == {Frac(1, 2)}
DecayRateArgs == {Frac(0, 1), Frac(1, 2)}

\* the d-th data set with n samples: features and labels
DataX(d, n) ==
    Mat([j \in 1..n |-> [k \in 1..n_features |-> (((d + 2 * j + k) % 3) - 1) * One]])
DataY(d, n) == Vec([j \in 1..n |-> (d + j) % n_output])

\* every label vector of at most MaxN valid labels, and every batch of samples
LabelVectors == UNION {[1..n -> 0..(n_output - 1)] : n \in 0..MaxN}
Batches == {DataX(d, n) : d \in 1..Seeds, n \in 0..MaxN}

----------------------------------------------------------------------------
(* Construction *)

\* __init__
Construct(seed, l2_, epochs_, learning_rate_, decay_rate_, minibatch_size_, activation_) ==
    /\ w1 = InitW1(seed)
    /\ w2 = InitW2(seed)
    /\ l2 = l2_
    /\ epochs = epochs_
    /\ learning_rate = learning_rate_
    /\ decay_rate = decay_rate_
    /\ minibatch_size = minibatch_size_
    /\ activation = InitActivation(activation_)

\* no call of fit has started
NoFit ==
    /\ pc = "idle"
    /\ X_data = None /\ y_data = None /\ y_enc = None /\ print_progress = None
    /\ i = 0 /\ mini = <<>> /\ batch = 0
    /\ acts = None /\ cost = None /\ grad1 = None /\ grad2 = None
    /\ prev_grad_w1 = None /\ prev_grad_w2 = None
    /\ costs = <<>> /\ grad_1_li = <<>> /\ grad_2_li = <<>>
    /\ printed = <<>> /\ raised = None
    /\ lr_start = None /\ lr_li = <<>>
    /\ ret = [op |-> None]

Init ==
    /\ \E seed \in 1..Seeds, l \in L2Args, e \in 0..MaxEpochs, lr \in LearningRateArgs,
          d \in DecayRateArgs, k \in 1..MaxBatches :
          Construct(seed, l, e, lr, d, k, "relu")
    /\ NoFit

----------------------------------------------------------------------------
(* fit *)

\* fit is called: lines up to the epoch loop
FitCall ==
    /\ pc = "idle"
    /\ \E d \in 1..Seeds, n \in 1..MaxN, p \in BOOLEAN :
          /\ X_data' = DataX(d, n)
          /\ y_data' = DataY(d, n)
          /\ y_enc' = EncodeLabels(DataY(d, n), n_output)
          /\ print_progress' = p
    /\ prev_grad_w1' = Zeros(Len(w1), Len(w1[1]))
    /\ prev_grad_w2' = Zeros(Len(w2), Len(w2[1]))
    /\ costs' = <<>> /\ grad_1_li' = <<>> /\ grad_2_li' = <<>>
    /\ i' = 0
    /\ lr_start' = learning_rate /\ lr_li' = <<>>
    /\ pc' = "epoch"
    /\ UNCHANGED <<self_vars, mini, batch, step_vars, printed, raised, ret>>

\* the head of one pass of the epoch loop: decay, then the split
EpochBegin ==
    /\ pc = "epoch"
    /\ i < epochs
    /\ learning_rate' = FracDiv(learning_rate, DecayFactor(decay_rate, i))
    /\ mini' = ArraySplit(Len(y_data), minibatch_size)
    /\ batch' = 1
    /\ pc' = "forward"
    /\ UNCHANGED <<w1, w2, l2, epochs, decay_rate, minibatch_size, activation,
                   data_vars, i, step_vars, prev_vars, list_vars, printed, raised,
                   hist_vars, ret>>

\* feed forward on the current minibatch
ForwardStep ==
    /\ pc = "forward"
    /\ LET X == Rows(X_data, mini[batch]) IN
         IF ForwardRaises(X)
         THEN /\ raised' = "ValueError"
              /\ pc' = "raised"
              /\ UNCHANGED acts
         ELSE /\ acts' = Forward(X, w1, w2)
              /\ pc' = "cost"
              /\ UNCHANGED raised
    /\ UNCHANGED <<self_vars, data_vars, loop_vars, cost, grad1, grad2, prev_vars,
                   list_vars, printed, hist_vars, ret>>

\* the cost of the current minibatch
CostStep ==
    /\ pc = "cost"
    /\ cost' = GetCost(Cols(y_enc, mini[batch]), acts.a3, w1, w2, l2)
    /\ costs' = Append(costs, cost')
    /\ pc' = "backprop"
    /\ UNCHANGED <<self_vars, data_vars, loop_vars, acts, grad1, grad2, prev_vars,
                   grad_1_li, grad_2_li, printed, raised, hist_vars, ret>>

\* the gradient of the current minibatch
BackpropStep ==
    /\ pc = "backprop"
    /\ LET g == Backprop(acts.a1, acts.a2, acts.a3, acts.z2,
                         Cols(y_enc, mini[batch]), w1, w2, l2)
       IN  /\ grad1' = g.grad1
           /\ grad2' = g.grad2
           /\ grad_1_li' = Append(grad_1_li, g.grad1)
           /\ grad_2_li' = Append(grad_2_li, g.grad2)
    /\ pc' = "update"
    /\ UNCHANGED <<self_vars, data_vars, loop_vars, acts, cost, prev_vars, costs,
                   printed, raised, hist_vars, ret>>

\* w += -(update + previous update), for one weight matrix
Updated(w, update, prev) == MatSub(w, MatAdd(update, prev))

\* Remembered accumulating the earlier updates
RememberedSum(update, prev) == MatAdd(update, prev)

\* the value prev_grad_w takes after a step with this update
Remembered(update, prev) == update

\* the parameter update of the current minibatch
UpdateStep ==
    /\ pc = "update"
    /\ LET w1_update == Scaled(learning_rate, grad1)
           w2_update == Scaled(learning_rate, grad2)
       IN  /\ w1' = Updated(w1, w1_update, prev_grad_w1)
           /\ w2' = Updated(w2, w2_update, prev_grad_w2)
           /\ prev_grad_w1' = Remembered(w1_update, prev_grad_w1)
           /\ prev_grad_w2' = Remembered(w2_update, prev_grad_w2)
    /\ lr_li' = Append(lr_li, learning_rate)
    /\ batch' = batch + 1
    /\ pc' = IF batch = Len(mini) THEN "epoch_end" ELSE "forward"
    /\ UNCHANGED <<l2, epochs, learning_rate, decay_rate, minibatch_size, activation,
                   data_vars, i, mini, step_vars, list_vars, printed, raised,
                   lr_start, ret>>

\* the tail of one pass of the epoch loop: the progress report
EpochEnd ==
    /\ pc = "epoch_end"
    /\ printed' = IF print_progress
                  THEN Append(printed, [epoch |-> i + 1, loss |-> cost,
                                        acc |-> Accuracy(X_data, y_data, w1, w2)])
                  ELSE printed
    /\ i' = i + 1
    /\ pc' = "epoch"
    /\ UNCHANGED <<self_vars, data_vars, mini, batch, step_vars, prev_vars, list_vars,
                   raised, hist_vars, ret>>

\* return self
FitReturn ==
    /\ pc = "epoch"
    /\ i >= epochs
    /\ pc' = "returned"
    /\ ret' = [op |-> "fit", out |-> "self"]
    /\ UNCHANGED <<self_vars, data_vars, loop_vars, step_vars, prev_vars, list_vars,
                   printed, raised, hist_vars>>

----------------------------------------------------------------------------
(* Calls of the other methods, on an instance that is not being fitted.    *)
(* ret records the finished call: its arguments, the exception it raised   *)
(* or the value it returned.  None of these methods changes the instance,  *)
(* so a behaviour observes one call.                                       *)

\* the instance is at rest and no call has been observed yet
Callable == pc = "idle" /\ ret.op = None

\* label arguments of encode_labels: valid labels, one label beyond either end
LabelArgs == UNION {[1..n -> (0 - n_output - 1)..n_output] : n \in 0..MaxN}

\* arguments of softmax: matrices with one row per class
SoftmaxEntries == {0 - 2 * One, One}
SoftmaxArgSet == UNION {[1..n_output -> [1..m -> SoftmaxEntries]] : m \in 0..(MaxN - 1)}

\* output columns handed to get_cost: the uniform distribution, and one that
\* gives half of the mass to the last class
ProbColumns ==
    {[c \in 1..n_output |-> One \div n_output],
     [c \in 1..n_output |-> IF c = n_output THEN One - (n_output - 1) * (One \div (2 * n_output))
                            ELSE One \div (2 * n_output)]}

Returned(op, in, out) == [op |-> op, in |-> in, raised |-> None, out |-> out]
Raised(op, in, exc) == [op |-> op, in |-> in, raised |-> exc, out |-> None]

CallEncodeLabels ==
    /\ Callable
    /\ \E y \in LabelArgs, num_labels \in {n_output, n_output + 1} :
          LET in == [y |-> y, num_labels |-> num_labels] IN
          ret' = IF EncodeRaises(y, num_labels)
                 THEN Raised("encode_labels", in, "IndexError")
                 ELSE Returned("encode_labels", in, EncodeLabels(y, num_labels))
    /\ UNCHANGED <<self_vars, fit_vars>>

CallSoftmax ==
    /\ Callable
    /\ \E v \in SoftmaxArgSet :
          LET in == [v |-> v] IN
          ret' = IF SoftmaxRaises(v)
                 THEN Raised("softmax", in, "ValueError")
                 ELSE Returned("softmax", in, [args |-> SoftmaxArgs(v), a |-> Softmax(v)])
    /\ UNCHANGED <<self_vars, fit_vars>>

CallForward ==
    /\ Callable
    /\ \E X \in Batches :
          LET in == [X |-> X, w1 |-> w1, w2 |-> w2] IN
          ret' = IF ForwardRaises(X)
                 THEN Raised("forward", in, "ValueError")
                 ELSE Returned("forward", in, Forward(X, w1, w2))
    /\ UNCHANGED <<self_vars, fit_vars>>

CallGetCost ==
    /\ Callable
    /\ \E m \in 1..MaxN :
          \E y \in [1..m -> 0..(n_output - 1)], p \in [1..m -> ProbColumns] :
             LET y_e    == EncodeLabels(y, n_output)
                 output == Transpose(p, m, n_output)
                 in     == [y |-> y, y_enc |-> y_e, output |-> output, w1 |-> w1,
                            w2 |-> w2, l2 |-> l2]
             IN  ret' = Returned("get_cost", in, GetCost(y_e, output, w1, w2, l2))
    /\ UNCHANGED <<self_vars, fit_vars>>

CallPredict ==
    /\ Callable
    /\ \E X \in Batches :
          LET in == [X |-> X, w1 |-> w1, w2 |-> w2] IN
          ret' = IF ForwardRaises(X)
                 THEN Raised("predict", in, "ValueError")
                 ELSE Returned("predict", in, Predict(X, w1, w2))
    /\ UNCHANGED <<self_vars, fit_vars>>

CallAccuracy ==
    /\ Callable
    /\ \E X \in Batches, y \in LabelVectors :
          /\ Len(X) = Len(y)
          /\ LET in == [X |-> X, y |-> y, w1 |-> w1, w2 |-> w2] IN
             ret' = IF ForwardRaises(X)
                    THEN Raised("accuracy", in, "ValueError")
                    ELSE Returned("accuracy", in, Accuracy(X, y, w1, w2))
    /\ UNCHANGED <<self_vars, fit_vars>>

\* backprop on the tensors of a forward pass over a non-empty batch
CallBackprop ==
    /\ Callable
    /\ \E X \in Batches, y \in LabelVectors :
          /\ Len(X) = Len(y)
          /\ ~ForwardRaises(X)
          /\ LET f   == Forward(X, w1, w2)
                 y_e == EncodeLabels(y, n_output)
                 in  == [a1 |-> f.a1, a2 |-> f.a2, a3 |-> f.a3, z2 |-> f.z2, y_enc |-> y_e,
                         w1 |-> w1, w2 |-> w2, l2 |-> l2]
             IN  ret' = Returned("backprop", in, Backprop(f.a1, f.a2, f.a3, f.z2, y_e, w1, w2, l2))
    /\ UNCHANGED <<self_vars, fit_vars>>

InitFn ==
    /\ \E seed \in 1..Seeds, l \in L2Args, a \in ActivationArgs :
          Construct(seed, l, 1, Frac(1, 2), Frac(0, 1), 1, a)
    /\ NoFit

NextFn ==
    \/ CallEncodeLabels
    \/ CallSoftmax
    \/ CallForward
    \/ CallGetCost
    \/ CallPredict
    \/ CallAccuracy
    \/ CallBackprop

SpecFn == InitFn /\ [][NextFn]_vars

----------------------------------------------------------------------------
(* Properties of the method calls, checked under SpecFn *)

returned(op) == ret.op = op /\ ret.raised = None

\* number of positions where the prediction is the label
Matches(pred, y) == Cardinality({k \in 1..Len(y) : pred[k] = y[k]})

\* |a - b| of two bit strings
AbsDiff(a, b) == IF BitsLeq(b, a) THEN SubBits(a, b) ELSE SubBits(b, a)

\* C1 as stated: accuracy(X, y) is exactly 100 * (number of i with
\* predict(X)[i] = y[i]) / len(y), the binary64 quotient of the two integers
C1_AccuracyExact ==
    returned("accuracy") =>
        LET pred == Predict(ret.in.X, ret.in.w1, ret.in.w2)
        IN  ret.out = FlDiv(100 * Matches(pred, ret.in.y), Len(ret.in.y))

\* C1 amended: accuracy(X, y) is 100 * matches / len(y) up to the rounding of
\* its two binary64 operations: it differs from the quotient by less than
\* 2^-45, is the quotient itself when 100 * matches / len(y) is an integer,
\* lies in [0, 100], and the call leaves the weights as they were
C1_AccuracyRounded ==
    returned("accuracy") =>
        LET pred  == Predict(ret.in.X, ret.in.w1, ret.in.w2)
            n     == Len(ret.in.y)
            m     == Matches(pred, ret.in.y)
            exact == QuotBits(100 * m, n)
        IN  /\ Lead(AbsDiff(ret.out, exact.bits)) > IntBits + 45
            /\ (100 * m) % n = 0 => ret.out = exact.bits
            /\ BitsLeq(ret.out, FlNat(100))
            /\ w1 = ret.in.w1 /\ w2 = ret.in.w2

\* C1 witness: a call on three samples with one wrong prediction, where the
\* returned value is not the rounded quotient
C1_Witness ==
    /\ returned("accuracy")
    /\ Len(ret.in.y) = 3
    /\ Matches(Predict(ret.in.X, ret.in.w1, ret.in.w2), ret.in.y) = 2
    /\ ret.out # FlDiv(200, 3)

\* C3 as stated: the hidden activation that forward computes is the
\* nonlinearity named by the activation attribute, applied to w1 . a1^T
Activate(name, z) ==
    Mat([r \in 1..Len(z) |-> [c \in 1..Len(z[r]) |->
            CASE name = "relu"    -> IF z[r][c] < 0 THEN 0 ELSE z[r][c]
              [] name = "tanh"    -> Tanh(z[r][c])
              [] name = "sigmoid" -> Sigmoid(z[r][c])]])

C3_ConfiguredActivation ==
    (returned("forward") /\ activation \in supported_activations) =>
        Tail(ret.out.a2) = Activate(activation, HiddenInput(ret.out.a1, ret.in.w1))

\* C4 as stated: an instance constructed with an unsupported activation name
\* has no activation attribute, and every forward pass on it, direct or
\* through predict or accuracy, ends in an AttributeError
C4_UnsetActivationFails ==
    /\ activation \in supported_activations \cup {Unset}
    /\ (activation = Unset /\ ret.op \in {"forward", "predict", "accuracy"}) =>
           ret.raised = "AttributeError"

\* C5: for labels all in [0, C), encode_labels(y, C) returns a C x N matrix
\* whose column i has a single 1, at row y[i], and 0 elsewhere; labels
\* [0, 2, 1] with C = 3 give the columns [1,0,0], [0,0,1], [0,1,0]
C5_OneHot ==
    (/\ ret.op = "encode_labels"
     /\ \A k \in 1..Len(ret.in.y) : ret.in.y[k] >= 0 /\ ret.in.y[k] < ret.in.num_labels) =>
        /\ ret.raised = None
        /\ Len(ret.out) = ret.in.num_labels
        /\ \A r \in 1..Len(ret.out) : Len(ret.out[r]) = Len(ret.in.y)
        /\ \A k \in 1..Len(ret.in.y) :
              /\ {r \in 1..Len(ret.out) : ret.out[r][k] = One} = {ret.in.y[k] + 1}
              /\ \A r \in 1..Len(ret.out) : ret.out[r][k] \in {0, One}
        /\ (ret.in.y = <<0, 2, 1>> /\ ret.in.num_labels = 3) =>
              Transpose(ret.out, 3, 3) = <<<<One, 0, 0>>, <<0, 0, One>>, <<0, One, 0>>>>

\* C5 witness: the labels [0, 2, 1] have been encoded with 3 classes
C5_Witness ==
    /\ returned("encode_labels")
    /\ ret.in.y = <<0, 2, 1>>
    /\ ret.in.num_labels = 3
    /\ ret.out[3][2] = One

\* C9 as stated: get_cost is the cross-entropy sum divided by the batch size
\* M, plus the L2 term (l2 / 2) * (sum of squares of the non-bias weights)
\* added whole, not divided by M
C9_L2NotAveraged ==
    returned("get_cost") =>
        ret.out = (CrossEntropy(ret.in.y_enc, ret.in.output) \div NCols(ret.in.y_enc))
                  + L2Term(ret.in.l2, ret.in.w1, ret.in.w2)

\* the cross-entropy sum, from the labels: minus the log of the output of
\* each sample's own class
LabelEntropy(y, output) ==
    0 - SumSeq(Vec([k \in 1..Len(y) |-> Log(output[y[k] + 1][k])]))

\* the sum of the squares of every entry outside column 0
NonBiasSquares(w) ==
    SumSeq(Flatten(Mat([r \in 1..Len(w) |-> [c \in 1..(Len(w[r]) - 1) |->
                                Mul(w[r][c + 1], w[r][c + 1])]])))

\* C9 amended: get_cost returns (cross-entropy sum + L2 term) / M: the L2
\* term (l2 / 2) * (sum of squares of the non-bias weights) is divided by the
\* batch size M together with the cross-entropy
C9_CostAveraged ==
    returned("get_cost") =>
        LET m     == Len(ret.in.y)
            total == LabelEntropy(ret.in.y, ret.in.output)
                     + Mul(ret.in.l2 \div 2,
                           NonBiasSquares(ret.in.w1) + NonBiasSquares(ret.in.w2))
        IN  m * ret.out <= total /\ total < m * ret.out + m

\* C9 witness: a cost of a batch of two samples with a positive L2 term
C9_Witness ==
    /\ returned("get_cost")
    /\ Len(ret.in.y) = 2
    /\ L2Term(ret.in.l2, ret.in.w1, ret.in.w2) > 0
    /\ ret.out > 0

\* C10 as stated: in every column of the input of softmax the largest
\* argument handed to exp is exactly 0
C10_ColumnMaxIsZero ==
    returned("softmax") =>
        \A c \in 1..NCols(ret.in.v) : MaxSeq(Col(ret.out.args, c)) = 0

\* C11 as stated: the second tensor forward returns is the hidden
\* pre-activation w1 . (X with bias column)^T, negative entries included,
\* and the call leaves the weights as they were handed in
C11_ReturnsPreActivation ==
    returned("forward") =>
        /\ ret.out.z2 = HiddenInput(AddBiasColumn(ret.in.X), ret.in.w1)
        /\ w1 = ret.in.w1
        /\ w2 = ret.in.w2

\* the weight matrix w with every entry of its bias column replaced by b
WithBias(w, b) == Mat([r \in 1..Len(w) |-> <<b>> \o Tail(w[r])])

\* the gradients backprop returns for the arguments of the observed call
\* when the instance's l2 is l
GradsAt(l) ==
    Backprop(ret.in.a1, ret.in.a2, ret.in.a3, ret.in.z2, ret.in.y_enc,
             ret.in.w1, ret.in.w2, l)

\* grad differs from base by exactly l * w in the columns 1.., and not at
\* all in column 0
L2OnNonBias(grad, base, w, l) ==
    /\ Len(grad) = Len(w)
    /\ \A r \in 1..Len(w) :
          /\ Len(grad[r]) = Len(w[r])
          /\ grad[r][1] = base[r][1]
          /\ \A c \in 2..Len(w[r]) : grad[r][c] = base[r][c] + Mul(w[r][c], l)

\* C12: the bias column of w1 and of w2 is outside L2 regularisation: the
\* cost get_cost returns is the same whatever the bias columns hold; the
\* gradients backprop returns have the shapes of w1 and w2, their column 0
\* is the same for every l2, and their other columns are the unregularised
\* gradient plus l2 * w
C12_BiasNotRegularised ==
    /\ returned("get_cost") =>
          \A b \in {0, One, 0 - 3 * One} :
             GetCost(ret.in.y_enc, ret.in.output, WithBias(ret.in.w1, b),
                     WithBias(ret.in.w2, b), ret.in.l2) = ret.out
    /\ returned("backprop") =>
          /\ L2OnNonBias(ret.out.grad1, GradsAt(0).grad1, ret.in.w1, ret.in.l2)
          /\ L2OnNonBias(ret.out.grad2, GradsAt(0).grad2, ret.in.w2, ret.in.l2)
          /\ \A l \in L2Args \cup {2 * One} :
                /\ Col(GradsAt(l).grad1, 1) = Col(ret.out.grad1, 1)
                /\ Col(GradsAt(l).grad2, 1) = Col(ret.out.grad2, 1)

\* C12 witness: backprop on an instance with l2 > 0 whose weights have a
\* non-zero entry in the bias column of w1 and of w2, and whose
\* regularisation term changed a non-bias entry of both gradients
C12_Witness ==
    /\ returned("backprop")
    /\ ret.in.l2 > 0
    /\ \E r \in 1..Len(ret.in.w1) : Mul(ret.in.w1[r][1], ret.in.l2) # 0
    /\ \E r \in 1..Len(ret.in.w2) : Mul(ret.in.w2[r][1], ret.in.l2) # 0
    /\ DropFirstCol(ret.out.grad1) # DropFirstCol(GradsAt(0).grad1)
    /\ DropFirstCol(ret.out.grad2) # DropFirstCol(GradsAt(0).grad2)

----------------------------------------------------------------------------

(* Properties of fit, checked under Spec *)

\* fit is inside the epoch loop
InEpoch == pc \in {"forward", "cost", "backprop", "update", "epoch_end"}

\* number of parameter updates made so far
Updates == Len(lr_li)

\* C2 as stated: fit never ends otherwise than by returning; when it returns
\* it has run epochs passes and epochs * minibatch_size parameter updates,
\* and it returns the instance
C2_FitCompletes ==
    /\ pc # "raised"
    /\ (pc = "returned") =>
          /\ i = epochs
          /\ Updates = epochs * minibatch_size
          /\ ret = [op |-> "fit", out |-> "self"]

\* the scaled gradient of update t of the run: the learning rate in effect
\* at that step times the gradient of that step
Delta1(t) == IF t = 0 THEN Zeros(Len(w1), Len(w1[1])) ELSE Scaled(lr_li[t], grad_1_li[t])
Delta2(t) == IF t = 0 THEN Zeros(Len(w2), Len(w2[1])) ELSE Scaled(lr_li[t], grad_2_li[t])

RECURSIVE DecayProduct(_, _)
DecayProduct(decay, k) ==
    IF k < 0 THEN Frac(1, 1)
    ELSE FracMul(DecayProduct(decay, k - 1), Frac(decay.d + decay.n * k, decay.d))

\* C7: the stored learning rate changes only at the start of an epoch, where
\* in epoch i (from 0) it is divided by 1 + decay_rate * i; it is never reset:
\* during epoch k it is the rate fit started with divided by the product of
\* 1 + decay_rate * j for j = 0..k, the same for every minibatch of the
\* epoch; for decay_rate >= 0 it never increases, and it stays decayed on the
\* instance after fit has returned
C7_LearningRateDecay ==
    /\ [](InEpoch => learning_rate = FracDiv(lr_start, DecayProduct(decay_rate, i)))
    /\ [](pc \in {"epoch", "returned"} =>
            learning_rate = FracDiv(lr_start, DecayProduct(decay_rate, i - 1)))
    /\ [][
          /\ (learning_rate' # learning_rate) => (pc = "epoch" /\ pc' = "forward")
          /\ (pc = "epoch" /\ pc' = "forward") =>
                 learning_rate' = FracDiv(learning_rate, Frac(decay_rate.d + decay_rate.n * i,
                                                              decay_rate.d))
          /\ FracLeq(learning_rate', learning_rate)
       ]_vars

\* C7 witness: fit has returned after three epochs with a positive decay
\* rate, and the rate left on the instance is the compounded one, smaller
\* than the starting rate divided by the factor of the last epoch alone
C7_Witness ==
    /\ pc = "returned"
    /\ i = 3
    /\ decay_rate.n > 0
    /\ learning_rate = FracDiv(lr_start, FracMul(Frac(decay_rate.d + decay_rate.n, decay_rate.d),
                                                 Frac(decay_rate.d + 2 * decay_rate.n, decay_rate.d)))
    /\ learning_rate # FracDiv(lr_start, Frac(decay_rate.d + 2 * decay_rate.n, decay_rate.d))

\* C8: in every epoch the indices 0..N-1 are split into exactly
\* minibatch_size partitions, contiguous, ascending, disjoint and covering
\* every index once, the same in every epoch; each partition is processed
\* as a whole, forward, cost, backward, update in this order, before the
\* next one starts
C8_Partitions ==
    /\ [](InEpoch =>
            /\ Len(mini) = minibatch_size
            /\ Flatten(mini) = [q \in 1..Len(y_data) |-> q - 1]
            /\ batch \in 1..(Len(mini) + 1)
            /\ (pc \in {"cost", "backprop", "update"} =>
                  /\ acts.a1 = AddBiasColumn(Rows(X_data, mini[batch]))
                  /\ Len(costs) = Updates + (IF pc = "cost" THEN 0 ELSE 1)
                  /\ Len(grad_1_li) = Updates + (IF pc = "update" THEN 1 ELSE 0)))
    /\ [][
          /\ (pc = "forward") => (pc' \in {"cost", "raised"} /\ batch' = batch)
          /\ (pc = "cost") => (pc' = "backprop" /\ batch' = batch)
          /\ (pc = "backprop") => (pc' = "update" /\ batch' = batch)
          /\ (pc = "update") =>
                 /\ batch' = batch + 1
                 /\ pc' = IF batch < minibatch_size THEN "forward" ELSE "epoch_end"
          /\ (pc = "epoch" /\ pc' = "forward") =>
                 /\ batch' = 1
                 /\ (i > 0 => mini' = mini)
       ]_vars

\* C8 witness: in the second epoch, three samples split in two, the second
\* partition is being updated
C8_Witness ==
    /\ pc = "update"
    /\ i = 1
    /\ Len(y_data) = 3
    /\ mini = <<<<0, 1>>, <<2>>>>
    /\ batch = 2
    /\ acts.a1 = AddBiasColumn(<<X_data[3]>>)

----------------------------------------------------------------------------

Next ==
    \/ FitCall
    \/ EpochBegin
    \/ ForwardStep
    \/ CostStep
    \/ BackpropStep
    \/ UpdateStep
    \/ EpochEnd
    \/ FitReturn

Spec == Init /\ [][Next]_vars

====
